---- MODULE Spec2Model ----
(***************************************************************************)
(* A model of lib/index.js of gulp-awspublish: the publish() transform,    *)
(* the cache() transform and the sync() transform of a Publisher, run      *)
(* against an abstract remote store (headObject, putObject, listObjects,   *)
(* deleteObjects).                                                         *)
(*                                                                         *)
(* Paths and keys are sequences of tokens (a name, a separator, an         *)
(* extension).  Scalars of the program are strings; the JavaScript value   *)
(* undefined is the string "undefined", and an absent ETag is <<>>.        *)
(***************************************************************************)
EXTENDS Naturals, Sequences, FiniteSets

\* ------------------------------------------------------------------ bounds

\* Files written into publish() over a whole behaviour.
MaxFiles == 2
\* Files waiting between publish() and cache().
MaxQueue == 1

\* ------------------------------------------------------------------ values

Undefined == "undefined"
NoEtag == <<>>

\* Payloads of the files of the model.
Contents == {"hi", "yo"}

\* file.relative of the files of the model; the second one was produced on
\* a platform whose separator is the backslash.
PathA == <<"a", ".txt">>
PathB == <<"d", "\\", "b">>
PathC == <<"d", "\\", "c">>
PathGz == <<"a", ".txt", ".gz">>

\* The keys the remote store and the cache are indexed by.
KeyA == <<"a", ".txt">>
KeyB == <<"d", "/", "b">>
KeyC == <<"d", "/", "c">>
Keys == {KeyA, KeyB, KeyC}

HeaderNames == {"Content-Type", "Content-Length", "Content-Encoding", "x-amz-acl", "Cache-Control"}
NoHeaders == [h \in HeaderNames |-> Undefined]

\* JavaScript truthiness of a string-or-undefined value.
Falsy(v) == v = Undefined \/ v = ""

\* ------------------------------------------------------------- pure helpers

\* crypto.createHash('md5').update(buf).digest('hex')
md5Hash(buf) ==
  CASE buf = "hi" -> "49f68a5c8493ec2c0bf489821c21fc3b"
    [] buf = "yo" -> "6d0007e52f7afb7d5a0650b0ffb8a4d1"
    [] OTHER      -> "d41d8cd98f00b204e9800998ecf8427e"

\* '"' + md5Hash(file.contents) + '"'
LocalEtag(contents) == <<"\"", md5Hash(contents), "\"">>

\* The ETag the store reports for an object whose body is `body` (a plain
\* putObject: the quoted MD5 of the body).
StoreEtag(body) == <<"\"", md5Hash(body), "\"">>

ETags == {LocalEtag(c) : c \in Contents}

\* file.contents.length
ContentLength(contents) ==
  CASE contents = "hi" -> "2"
    [] contents = "yo" -> "2"
    [] OTHER           -> "0"

\* file.relative.replace(/\\/g, '/')
RECURSIVE ReplaceBackslash(_)
ReplaceBackslash(p) ==
  IF p = <<>> THEN <<>>
  ELSE <<IF Head(p) = "\\" THEN "/" ELSE Head(p)>> \o ReplaceBackslash(Tail(p))

NoS3 == [set |-> FALSE, path |-> <<>>, headers |-> NoHeaders,
         state |-> Undefined, etag |-> NoEtag, date |-> Undefined]

initFile(file) ==
  IF ~file.s3.set
  THEN [file EXCEPT !.s3 = [NoS3 EXCEPT !.set = TRUE, !.path = ReplaceBackslash(file.path)]]
  ELSE file

\* mime.lookup(path) || 'application/octet-stream', by the last token.
MimeLookup(path) ==
  IF path = <<>> THEN "application/octet-stream"
  ELSE CASE path[Len(path)] = ".txt" -> "text/plain"
         [] path[Len(path)] = ".gz"  -> "application/gzip"
         [] OTHER                    -> "application/octet-stream"

\* mime.charset(mimeType), lower-cased, or undefined.
MimeCharset(mimeType) == IF mimeType = "text/plain" THEN "utf-8" ELSE Undefined

getContentType(file) ==
  LET mimeType == MimeLookup(IF file.unzipPath # <<>> THEN file.unzipPath ELSE file.path)
      charset  == MimeCharset(mimeType)
  IN  IF charset # Undefined THEN <<mimeType, "; charset=", charset>> ELSE <<mimeType>>

\* The content type as the single header string.
ContentTypeString(file) ==
  LET t == getContentType(file)
  IN  IF Len(t) = 3 THEN "text/plain; charset=utf-8" ELSE t[1]

\* path.endsWith(suffix), for a one-token suffix.
EndsWith(path, suffix) == path # <<>> /\ path[Len(path)] = suffix

\* path.substr(0, path.length - suffix.length)
DropSuffix(path) == SubSeq(path, 1, Len(path) - 1)

\* The header init of publish(headers, options): lines 300-304.
PublishHeaders(headers, options) ==
  IF Falsy(headers["x-amz-acl"]) /\ ~options.noAcl
  THEN [headers EXCEPT !["x-amz-acl"] = "public-read"]
  ELSE headers

\* Mutant: the content type is set whatever the file carries.
WithContentType_always(file, options) ==
  [file EXCEPT !.s3.headers["Content-Type"] = ContentTypeString(file)]

\* Lines 338-348: content type, and the encoding found from options.compress
\* (a mapping of one suffix to one encoding, or none).
WithContentType(file, options) ==
  IF ~Falsy(file.s3.headers["Content-Type"]) THEN file
  ELSE LET hit == options.compress # Undefined /\ file.unzipPath = <<>>
                   /\ EndsWith(file.path, ".gz")
           f1  == IF hit
                  THEN [file EXCEPT !.unzipPath = DropSuffix(file.path),
                                    !.s3.headers["Content-Encoding"] =
                                       IF Falsy(@) THEN options.compress ELSE @]
                  ELSE file
       IN  [f1 EXCEPT !.s3.headers["Content-Type"] = ContentTypeString(f1)]

\* Lines 351-352.
WithContentLength(file) ==
  IF Falsy(file.s3.headers["Content-Length"])
  THEN [file EXCEPT !.s3.headers["Content-Length"] = ContentLength(file.contents)]
  ELSE file

\* Line 355: for (header in headers) file.s3.headers[header] = headers[header]
WithExtraHeaders(file, headers) ==
  [file EXCEPT !.s3.headers =
     [h \in HeaderNames |-> IF headers[h] # Undefined THEN headers[h] ELSE @[h]]]

DeriveHeaders(file, headers, options) ==
  WithExtraHeaders(WithContentLength(WithContentType(file, options)), headers)

\* toAwsParams(file): the parameters of putObject.
toAwsParams(file) ==
  [Key |-> file.s3.path, Body |-> file.contents,
   ACL |-> file.s3.headers["x-amz-acl"],
   ContentType |-> file.s3.headers["Content-Type"],
   ContentLength |-> file.s3.headers["Content-Length"],
   ContentEncoding |-> file.s3.headers["Content-Encoding"],
   CacheControl |-> file.s3.headers["Cache-Control"]]

\* JSON.stringify(_cache): the key/fingerprint pairs of the mapping.
Stringify(c) == {<<k, c[k]>> : k \in {x \in Keys : c[x] # NoEtag}}

\* JSON.parse of the cache file's text.
Parse(text) ==
  [k \in Keys |-> IF \E p \in text : p[1] = k
                  THEN (CHOOSE p \in text : p[1] = k)[2]
                  ELSE NoEtag]

EmptyCache == [k \in Keys |-> NoEtag]

\* Lines 220-224: the cache a new Publisher loads; a missing file is {}.
LoadCache(file) == IF ~file.exists THEN EmptyCache ELSE Parse(file.text)

\* fs.writeFileSync(cacheFilename, JSON.stringify(_cache))
saveCache(c) == [exists |-> TRUE, text |-> Stringify(c)]

NoCacheFile == [exists |-> FALSE, text |-> {}]

\* ------------------------------------------------------------------- state

VARIABLES
  remote,     \* the store: key -> ETag of the object, NoEtag when absent
  cache,      \* Publisher._cache
  disk,       \* the cache file
  options,    \* the options of publish()
  headers,    \* the headers of publish(), after its init
  pub,        \* publish(): the file in the transform and where it stands
  q,          \* files pushed by publish(), not yet taken by cache()
  counter,    \* cache(): counter
  phase,      \* "running" | "finished": the cache() stream of this run
  nfiles,     \* files written into publish() so far
  prevPass,   \* per key, the last file that passed cache(): contents, state
  prefix,     \* sync(prefix, whitelistedFiles)
  whitelist,
  sync,       \* sync(): newFiles, toDelete, the lister, where the flush stands
  out,        \* what sync() pushed downstream, in order
  delCalls,   \* the key lists of the deleteObjects calls of this run
  prevSync,   \* the previous run of sync(): its files' keys and how it ended
  nsync       \* runs of sync() so far

pubVars == <<cache, disk, options, headers, pub, q, counter, phase, nfiles, prevPass>>
syncVars == <<prefix, whitelist, sync, out, delCalls, prevSync, nsync>>
vars == <<remote, pubVars, syncVars>>

NoFile == [kind |-> "null", contents |-> "", path |-> <<>>, unzipPath |-> <<>>, s3 |-> NoS3]
NoRes == [err |-> Undefined, ETag |-> NoEtag]
NoPass == [contents |-> "", state |-> Undefined]

Idle == [pc |-> "idle", in |-> NoFile, file |-> NoFile, etag |-> NoEtag, res |-> NoRes,
         err |-> Undefined, pushed |-> 0, headCalls |-> 0, putCalls |-> 0, prev |-> NoPass]

\* The calls publish(headers, options) of the model: every combination of
\* force, createOnly and simulate with no headers, and three calls with
\* noAcl, a compress mapping { '.gz': 'gzip' } and a Cache-Control header.
PlainOptions ==
  [force : BOOLEAN, createOnly : BOOLEAN, simulate : BOOLEAN,
   noAcl : {FALSE}, compress : {Undefined}]

NoOptions == [force |-> FALSE, createOnly |-> FALSE, simulate |-> FALSE,
              noAcl |-> FALSE, compress |-> Undefined]

PublishCalls ==
  {[headers |-> NoHeaders, options |-> o] : o \in PlainOptions}
    \cup {[headers |-> [NoHeaders EXCEPT !["Cache-Control"] = "max-age=60"],
            options |-> [NoOptions EXCEPT !.compress = "gzip"]],
           [headers |-> NoHeaders, options |-> [NoOptions EXCEPT !.noAcl = TRUE]],
           [headers |-> [NoHeaders EXCEPT !["x-amz-acl"] = "private"],
            options |-> [NoOptions EXCEPT !.simulate = TRUE, !.compress = "gzip"]]}

\* A buffer file straight from the source, no s3 yet.
BufferFile(path, contents) ==
  [kind |-> "buffer", contents |-> contents, path |-> path, unzipPath |-> <<>>, s3 |-> NoS3]

\* A buffer file an upstream stage marked for deletion.
DeleteFile(path, contents) ==
  [BufferFile(path, contents) EXCEPT
     !.s3 = [NoS3 EXCEPT !.set = TRUE, !.path = ReplaceBackslash(path), !.state = "delete"]]

\* A buffer file whose s3 an upstream stage filled in.
PresetFile(path, contents, key, hdrs) ==
  [BufferFile(path, contents) EXCEPT
     !.s3 = [NoS3 EXCEPT !.set = TRUE, !.path = key, !.headers = hdrs]]

UpstreamHeaders ==
  [NoHeaders EXCEPT !["Content-Type"] = "text/html", !["Content-Length"] = "9",
                    !["Content-Encoding"] = "br", !["x-amz-acl"] = "private",
                    !["Cache-Control"] = "no-cache"]

\* The files written into publish(): plain buffers under two keys, buffers
\* marked for deletion, a file with no contents, a file with a stream, two
\* compressed files and a file carrying headers of an upstream stage.
PubFiles ==
  {BufferFile(p, c) : p \in {PathA, PathB}, c \in Contents}
    \cup {DeleteFile(PathA, c) : c \in Contents}
    \cup {[NoFile EXCEPT !.path = PathA]}
    \cup {[NoFile EXCEPT !.kind = "stream", !.path = PathA]}
    \cup {PresetFile(PathGz, "hi", KeyA, NoHeaders),
           PresetFile(PathGz, "hi", KeyA, [NoHeaders EXCEPT !["Content-Encoding"] = "br"]),
           PresetFile(PathA, "hi", KeyA, UpstreamHeaders)}

\* The keys publish() touches in the model.
PubKeys == {KeyA, KeyB}

\* A cache that agrees with the store on every key it holds.
Consistent(c, r) == \A k \in Keys : c[k] # NoEtag => c[k] = r[k]

\* The stores of the model hold nothing outside `keys`.
Stores(keys, etags) ==
  {r \in [Keys -> etags \cup {NoEtag}] : \A k \in Keys \ keys : r[k] = NoEtag}

\* sync(): no file seen, nothing listed.
SyncOpen == [pc |-> "open", newFiles |-> {}, toDelete |-> <<>>, lister |-> {}, listed |-> {},
             err |-> Undefined]
NoPrevSync == [ran |-> FALSE, newFiles |-> {}, ok |-> FALSE, deleted |-> {}]

\* No sync() stage in the pipeline.
SyncUnused ==
  /\ prefix = <<>>
  /\ whitelist = <<>>
  /\ sync = SyncOpen
  /\ out = <<>>
  /\ delCalls = <<>>
  /\ prevSync = NoPrevSync
  /\ nsync = 0

InitPub ==
  /\ SyncUnused
  /\ remote \in Stores(PubKeys, ETags)
  /\ disk \in {NoCacheFile}
              \cup {saveCache(c) : c \in {x \in Stores(PubKeys, ETags) : Consistent(x, remote)}}
  /\ cache = LoadCache(disk)
  /\ \E call \in PublishCalls :
        /\ options = call.options
        /\ headers = PublishHeaders(call.headers, call.options)
  /\ pub = Idle
  /\ q = <<>>
  /\ counter = 0
  /\ phase = "running"
  /\ nfiles = 0
  /\ prevPass = [k \in Keys |-> NoPass]

\* ---------------------------------------------------------------- publish()

\* Line 332: the file is identical to the one in cache.
CacheHit(opts, c, key, etag) == ~opts.force /\ c[key] = etag

\* Mutant: only 404 means an absent object.
HeadErrorSurfaced_not404(err) == err # Undefined /\ err # "404"

\* Mutant: no error of headObject is surfaced.
HeadErrorSurfaced_never(err) == FALSE

\* Line 362: the errors of headObject that are surfaced.
HeadErrorSurfaced(err) == err # Undefined /\ err \notin {"403", "404"}

\* Mutant: force wins over createOnly.
NoUpdate_unlessForce(opts, res) == opts.createOnly /\ ~opts.force /\ res.ETag # NoEtag

\* Line 367.
NoUpdate(opts, res) == opts.createOnly /\ res.ETag # NoEtag

\* Mutant: force is not looked at.
NoChange_ignoresForce(opts, res, etag) == res.ETag = etag

\* Line 370.
NoChange(opts, res, etag) == ~opts.force /\ res.ETag = etag

\* Line 380.
PutState(res) == IF res.ETag # NoEtag THEN "update" ELSE "create"

\* What headObject can answer for a key: the object's ETag when it is there,
\* 404 when it is not, and on either 403 (no permission) or another error.
HeadAnswers(key) ==
  (IF remote[key] # NoEtag THEN {[err |-> Undefined, ETag |-> remote[key]]}
   ELSE {[err |-> "404", ETag |-> NoEtag]})
  \cup {[err |-> e, ETag |-> NoEtag] : e \in {"403", "500"}}

\* Mutant: the cache is looked up before the delete mark.
PublishWrite_cacheFirst(f) ==
  /\ phase = "running"
  /\ pub.pc \in {"idle", "done"}
  /\ nfiles < MaxFiles
  /\ Len(q) < MaxQueue
  /\ nfiles' = nfiles + 1
  /\ LET start == [Idle EXCEPT !.in = f, !.file = f]
         f1    == initFile(f)
         etag  == LocalEtag(f1.contents)
         f2    == DeriveHeaders(f1, headers, options)
     IN  IF f.kind = "null"
         THEN /\ pub' = [start EXCEPT !.pc = "done"]
              /\ q' = q
         ELSE IF f.kind = "stream"
         THEN /\ pub' = [start EXCEPT !.pc = "done", !.err = "stream"]
              /\ q' = q
         ELSE IF CacheHit(options, cache, f1.s3.path, etag)
         THEN LET f3 == [f1 EXCEPT !.s3.state = "cache"]
              IN  /\ pub' = [start EXCEPT !.pc = "done", !.file = f3, !.etag = etag,
                                          !.pushed = 1, !.prev = prevPass[f1.s3.path]]
                  /\ q' = Append(q, f3)
         ELSE IF f1.s3.state = "delete"
         THEN /\ pub' = [start EXCEPT !.pc = "done", !.file = f1, !.etag = etag, !.pushed = 1]
              /\ q' = Append(q, f1)
         ELSE IF options.simulate
         THEN /\ pub' = [start EXCEPT !.pc = "done", !.file = f2, !.etag = etag,
                                      !.pushed = 1, !.prev = prevPass[f1.s3.path]]
              /\ q' = Append(q, f2)
         ELSE /\ pub' = [start EXCEPT !.pc = "head", !.file = f2, !.etag = etag,
                                      !.headCalls = 1, !.prev = prevPass[f1.s3.path]]
              /\ q' = q
  /\ UNCHANGED <<remote, cache, disk, options, headers, counter, phase, prevPass>>
  /\ UNCHANGED syncVars

\* Lines 306-360: the transform, up to its first callback or remote call.
PublishWrite(f) ==
  /\ phase = "running"
  /\ pub.pc \in {"idle", "done"}
  /\ nfiles < MaxFiles
  /\ Len(q) < MaxQueue
  /\ nfiles' = nfiles + 1
  /\ LET start == [Idle EXCEPT !.in = f, !.file = f]
         f1    == initFile(f)
         etag  == LocalEtag(f1.contents)
         f2    == DeriveHeaders(f1, headers, options)
     IN  IF f.kind = "null"
         THEN /\ pub' = [start EXCEPT !.pc = "done"]
              /\ q' = q
         ELSE IF f.kind = "stream"
         THEN /\ pub' = [start EXCEPT !.pc = "done", !.err = "stream"]
              /\ q' = q
         ELSE IF f1.s3.state = "delete"
         THEN /\ pub' = [start EXCEPT !.pc = "done", !.file = f1, !.etag = etag, !.pushed = 1]
              /\ q' = Append(q, f1)
         ELSE IF CacheHit(options, cache, f1.s3.path, etag)
         THEN LET f3 == [f1 EXCEPT !.s3.state = "cache"]
              IN  /\ pub' = [start EXCEPT !.pc = "done", !.file = f3, !.etag = etag,
                                          !.pushed = 1, !.prev = prevPass[f1.s3.path]]
                  /\ q' = Append(q, f3)
         ELSE IF options.simulate
         THEN /\ pub' = [start EXCEPT !.pc = "done", !.file = f2, !.etag = etag,
                                      !.pushed = 1, !.prev = prevPass[f1.s3.path]]
              /\ q' = Append(q, f2)
         ELSE /\ pub' = [start EXCEPT !.pc = "head", !.file = f2, !.etag = etag,
                                      !.headCalls = 1, !.prev = prevPass[f1.s3.path]]
              /\ q' = q
  /\ UNCHANGED <<remote, cache, disk, options, headers, counter, phase, prevPass>>
  /\ UNCHANGED syncVars

\* Lines 360-382: the callback of headObject.
HeadResponse(r) ==
  /\ pub.pc = "head"
  /\ r \in HeadAnswers(pub.file.s3.path)
  /\ IF HeadErrorSurfaced(r.err)
     THEN /\ pub' = [pub EXCEPT !.pc = "done", !.res = r, !.err = "head"]
          /\ q' = q
     ELSE IF NoUpdate(options, r) \/ NoChange(options, r, pub.etag)
     THEN LET f3 == [pub.file EXCEPT !.s3.state = "skip", !.s3.etag = pub.etag,
                                     !.s3.date = "LastModified"]
          IN  /\ pub' = [pub EXCEPT !.pc = "done", !.res = r, !.file = f3, !.pushed = 1]
              /\ q' = Append(q, f3)
     ELSE /\ pub' = [pub EXCEPT !.pc = "put", !.res = r, !.putCalls = 1,
                                !.file = [@ EXCEPT !.s3.state = PutState(r)]]
          /\ q' = q
  /\ UNCHANGED <<remote, cache, disk, options, headers, counter, phase, nfiles, prevPass>>
  /\ UNCHANGED syncVars

\* Mutant: a failed putObject still records the etag and pushes the file.
PutResponse_pushesOnError(ok) ==
  /\ pub.pc = "put"
  /\ LET params == toAwsParams(pub.file)
         f3 == [pub.file EXCEPT !.s3.date = "now", !.s3.etag = pub.etag]
     IN  /\ remote' = IF ok THEN [remote EXCEPT ![params.Key] = StoreEtag(params.Body)]
                      ELSE remote
         /\ pub' = [pub EXCEPT !.pc = "done", !.file = f3, !.pushed = 1,
                               !.err = IF ok THEN Undefined ELSE "put"]
         /\ q' = Append(q, f3)
  /\ UNCHANGED <<cache, disk, options, headers, counter, phase, nfiles, prevPass>>
  /\ UNCHANGED syncVars

\* Lines 382-388: the callback of putObject; the store holds the body when
\* the call succeeded.
PutResponse(ok) ==
  /\ pub.pc = "put"
  /\ IF ok
     THEN LET params == toAwsParams(pub.file)
              f3 == [pub.file EXCEPT !.s3.date = "now", !.s3.etag = pub.etag]
          IN  /\ remote' = [remote EXCEPT ![params.Key] = StoreEtag(params.Body)]
              /\ pub' = [pub EXCEPT !.pc = "done", !.file = f3, !.pushed = 1]
              /\ q' = Append(q, f3)
     ELSE /\ pub' = [pub EXCEPT !.pc = "done", !.err = "put"]
          /\ UNCHANGED <<remote, q>>
  /\ UNCHANGED <<cache, disk, options, headers, counter, phase, nfiles, prevPass>>
  /\ UNCHANGED syncVars

\* ------------------------------------------------------------------ cache()

\* Mutant: a skipped file is not recorded.
CacheAfter_notSkipped(c, file) ==
  IF file.s3.state = "delete" THEN [c EXCEPT ![file.s3.path] = NoEtag]
  ELSE IF file.s3.etag # NoEtag /\ file.s3.state # "skip"
       THEN [c EXCEPT ![file.s3.path] = file.s3.etag]
  ELSE c

\* Mutant: a file marked for deletion keeps its entry.
CacheAfter_keepsDeleted(c, file) ==
  IF file.s3.state = "delete" THEN c
  ELSE IF file.s3.etag # NoEtag THEN [c EXCEPT ![file.s3.path] = file.s3.etag]
  ELSE c

\* Mutant: the etag of the file is stored whether it is there or not.
CacheAfter_unconditional(c, file) ==
  IF file.s3.state = "delete" THEN [c EXCEPT ![file.s3.path] = NoEtag]
  ELSE [c EXCEPT ![file.s3.path] = file.s3.etag]

\* Lines 257-264: the mapping after a file.
CacheAfter(c, file) ==
  IF file.s3.state = "delete" THEN [c EXCEPT ![file.s3.path] = NoEtag]
  ELSE IF file.s3.etag # NoEtag THEN [c EXCEPT ![file.s3.path] = file.s3.etag]
  ELSE c

\* Line 267: if (++counter % 10) saveCache()
SavesAfter(n) == n % 10 # 0

\* Lines 252-271: the transform of cache().
CacheWrite ==
  /\ q # <<>>
  /\ LET file == Head(q)
     IN  /\ q' = Tail(q)
         /\ IF file.s3.set /\ file.s3.path # <<>>
            THEN IF file.s3.state = "cache"
                 THEN UNCHANGED <<cache, counter, disk>>
                 ELSE /\ cache' = CacheAfter(cache, file)
                      /\ counter' = counter + 1
                      /\ disk' = IF SavesAfter(counter + 1) THEN saveCache(cache') ELSE disk
            ELSE UNCHANGED <<cache, counter, disk>>
         /\ prevPass' = IF file.s3.set /\ file.s3.path \in Keys
                        THEN [prevPass EXCEPT ![file.s3.path] =
                                [contents |-> file.contents, state |-> file.s3.state]]
                        ELSE prevPass
  /\ UNCHANGED <<remote, options, headers, pub, phase, nfiles>>
  /\ UNCHANGED syncVars

\* Mutant: the stream finishes without a save.
CacheFinish_noSave ==
  /\ phase = "running"
  /\ pub.pc \in {"idle", "done"}
  /\ q = <<>>
  /\ phase' = "finished"
  /\ UNCHANGED <<remote, cache, disk, options, headers, pub, q, counter, nfiles, prevPass>>
  /\ UNCHANGED syncVars

\* Line 273: stream.on('finish', saveCache), once every file has passed.
CacheFinish ==
  /\ phase = "running"
  /\ pub.pc \in {"idle", "done"}
  /\ q = <<>>
  /\ disk' = saveCache(cache)
  /\ phase' = "finished"
  /\ UNCHANGED <<remote, cache, options, headers, pub, q, counter, nfiles, prevPass>>
  /\ UNCHANGED syncVars

\* Lines 204-225, 244-246, 293-304: a later run: a new Publisher on the same
\* cache file, with its publish() and cache() streams.
NewRun(call) ==
  /\ phase = "finished"
  /\ nfiles < MaxFiles
  /\ cache' = LoadCache(disk)
  /\ options' = call.options
  /\ headers' = PublishHeaders(call.headers, call.options)
  /\ pub' = Idle
  /\ counter' = 0
  /\ phase' = "running"
  /\ UNCHANGED <<remote, disk, q, nfiles, prevPass>>
  /\ UNCHANGED syncVars

NextPub ==
  \/ \E f \in PubFiles : PublishWrite(f)
  \/ \E r \in [err : {Undefined, "403", "404", "500"}, ETag : ETags \cup {NoEtag}] : HeadResponse(r)
  \/ \E ok \in BOOLEAN : PutResponse(ok)
  \/ CacheWrite
  \/ CacheFinish
  \/ \E call \in PublishCalls : NewRun(call)

SpecPub == InitPub /\ [][NextPub]_vars

\* ------------------------------------------------------- cache(), on its own

\* Files written into cache() in the runs of SpecCache.
MaxCacheFiles == 10

\* A file as publish() pushes it: s3 filled in, with the state and the etag
\* publish() left on it.
PushedFile(path, contents, state, etag) ==
  [BufferFile(path, contents) EXCEPT
     !.s3 = [NoS3 EXCEPT !.set = TRUE, !.path = ReplaceBackslash(path),
                         !.state = state, !.etag = etag]]

\* What reaches cache(): a created, an updated and a skipped file (etag set),
\* a cache hit, a file marked for deletion, a simulated file (no state, no
\* etag), and a file no stage gave an s3.
CacheFiles ==
  {PushedFile(PathA, "hi", "create", LocalEtag("hi")),
   PushedFile(PathA, "yo", "update", LocalEtag("yo")),
   PushedFile(PathA, "hi", "skip", LocalEtag("hi")),
   PushedFile(PathA, "hi", "cache", NoEtag),
   PushedFile(PathA, "hi", "delete", NoEtag),
   PushedFile(PathA, "hi", Undefined, NoEtag),
   BufferFile(PathA, "hi")}

InitCache ==
  /\ SyncUnused
  /\ remote = [k \in Keys |-> NoEtag]
  /\ disk \in {NoCacheFile} \cup {saveCache(c) : c \in Stores({KeyA}, ETags)}
  /\ cache = LoadCache(disk)
  /\ options = NoOptions
  /\ headers = PublishHeaders(NoHeaders, NoOptions)
  /\ pub = Idle
  /\ q = <<>>
  /\ counter = 0
  /\ phase = "running"
  /\ nfiles = 0
  /\ prevPass = [k \in Keys |-> NoPass]

\* The upstream stage pushes a file into cache().
CacheSource(f) ==
  /\ phase = "running"
  /\ nfiles < MaxCacheFiles
  /\ Len(q) < MaxQueue
  /\ q' = Append(q, f)
  /\ nfiles' = nfiles + 1
  /\ UNCHANGED <<remote, cache, disk, options, headers, pub, counter, phase, prevPass>>
  /\ UNCHANGED syncVars

\* Lines 204-225, 244-246: a Publisher created after the run on the same
\* cache file, and its cache() stream.
NewPublisher ==
  /\ phase = "finished"
  /\ cache' = LoadCache(disk)
  /\ counter' = 0
  /\ phase' = "running"
  /\ UNCHANGED <<remote, disk, options, headers, pub, q, nfiles, prevPass>>
  /\ UNCHANGED syncVars

NextCache ==
  \/ \E f \in CacheFiles : CacheSource(f)
  \/ CacheWrite
  \/ CacheFinish
  \/ NewPublisher

SpecCache == InitCache /\ [][NextCache]_vars

\* ------------------------------------------------------------------- sync()

\* Files written into sync() in one run.
MaxSyncFiles == 2
\* Runs of sync() in one behaviour.
MaxSyncRuns == 2
\* The most keys the store takes in one deleteObjects call.
DeleteLimit == 2

\* key.startsWith(prefix): what listObjects({ Prefix: prefix }) selects.
StartsWith(key, pre) == Len(pre) <= Len(key) /\ SubSeq(key, 1, Len(pre)) = pre

\* expr.test(key) for a pattern that is a run of tokens.
RegExpTest(pat, key) ==
  \E i \in 1..(Len(key) + 1 - Len(pat)) : SubSeq(key, i, i + Len(pat) - 1) = pat

\* Lines 99-117; "throw" when an entry is neither a pattern nor a string.
RECURSIVE fileShouldBeDeletedFrom(_, _, _)
fileShouldBeDeletedFrom(i, key, wl) ==
  IF i > Len(wl) THEN "true"
  ELSE LET expr == wl[i]
       IN  IF expr.kind = "regexp"
           THEN IF RegExpTest(expr.val, key) THEN "false"
                ELSE fileShouldBeDeletedFrom(i + 1, key, wl)
           ELSE IF expr.kind = "string"
           THEN IF expr.val = key THEN "false"
                ELSE fileShouldBeDeletedFrom(i + 1, key, wl)
           ELSE "throw"

\* Mutant: the loop starts at the second entry.
fileShouldBeDeleted_skipsFirst(key, wl) == fileShouldBeDeletedFrom(2, key, wl)

fileShouldBeDeleted(key, wl) == fileShouldBeDeletedFrom(1, key, wl)

\* Mutant: only the first key is sent.
buildDeleteMultiple_first(keys) ==
  IF keys = <<>> THEN [Delete |-> [Objects |-> <<>>]]
  ELSE [Delete |-> [Objects |-> <<[Key |-> keys[1]]>>]]

\* Mutant: the last key is left out.
buildDeleteMultiple_dropsLast(keys) ==
  IF keys = <<>> THEN [Delete |-> [Objects |-> <<>>]]
  ELSE [Delete |-> [Objects |-> [i \in 1..(Len(keys) - 1) |-> [Key |-> keys[i]]]]]

\* Lines 119-131; undefined for no keys.
buildDeleteMultiple(keys) ==
  IF keys = <<>> THEN [Delete |-> [Objects |-> <<>>]]
  ELSE [Delete |-> [Objects |-> [i \in 1..Len(keys) |-> [Key |-> keys[i]]]]]

\* The keys a deleteObjects call names.
CallKeys(params) == {params.Delete.Objects[i].Key : i \in 1..Len(params.Delete.Objects)}

\* Lines 421-424: the keys the listing delivers.
ListObjects(pre) == {k \in Keys : remote[k] # NoEtag /\ StartsWith(k, pre)}

\* Mutant: the record carries no state.
DeleteRecord_noState(key) ==
  [NoFile EXCEPT !.s3 = [NoS3 EXCEPT !.set = TRUE, !.path = key]]

\* Lines 431-436: the record of a deletion.
DeleteRecord(key) ==
  [NoFile EXCEPT !.s3 = [NoS3 EXCEPT !.set = TRUE, !.path = key, !.state = "delete"]]

\* A file as publish() emits it after an upload.
PublishedFile(path) ==
  [initFile(BufferFile(path, "hi")) EXCEPT
     !.s3.state = "create", !.s3.etag = LocalEtag("hi"), !.s3.date = "now"]

SyncFiles == {PublishedFile(p) : p \in {PathA, PathB, PathC}}

WhitelistEntries ==
  {[kind |-> "string", val |-> KeyA], [kind |-> "string", val |-> KeyB],
   [kind |-> "regexp", val |-> <<"c">>], [kind |-> "other", val |-> <<>>]}

Whitelists ==
  {<<>>} \cup {<<e>> : e \in WhitelistEntries}
         \cup {<<e1, e2>> : e1 \in WhitelistEntries, e2 \in WhitelistEntries}

\* No publish() and no cache() stage in the pipeline.
PubUnused ==
  /\ cache = EmptyCache
  /\ disk = NoCacheFile
  /\ options = NoOptions
  /\ headers = PublishHeaders(NoHeaders, NoOptions)
  /\ pub = Idle
  /\ q = <<>>
  /\ counter = 0
  /\ phase = "running"
  /\ nfiles = 0
  /\ prevPass = [k \in Keys |-> NoPass]

InitSync ==
  /\ PubUnused
  /\ remote \in Stores(Keys, {StoreEtag("hi")})
  /\ prefix \in {<<>>, <<"d", "/">>}
  /\ whitelist \in Whitelists
  /\ sync = SyncOpen
  /\ out = <<>>
  /\ delCalls = <<>>
  /\ prevSync = NoPrevSync
  /\ nsync = 1

\* Lines 411-415: _transform.
SyncWrite(f) ==
  /\ sync.pc = "open"
  /\ Len(out) < MaxSyncFiles
  /\ sync' = [sync EXCEPT !.newFiles = @ \cup {f.s3.path}]
  /\ out' = Append(out, f)
  /\ UNCHANGED <<remote, pubVars, prefix, whitelist, delCalls, prevSync, nsync>>

\* Lines 417-424: _flush, when the input has ended: the listing starts.
SyncFlush ==
  /\ sync.pc = "open"
  /\ sync' = [sync EXCEPT !.pc = "listing", !.toDelete = <<>>, !.lister = ListObjects(prefix),
                          !.listed = ListObjects(prefix)]
  /\ UNCHANGED <<remote, pubVars, prefix, whitelist, out, delCalls, prevSync, nsync>>

\* Mutant: a listed key is not looked up in newFiles.
ListerData_ignoresNewFiles(key) ==
  /\ sync.pc = "listing"
  /\ key \in sync.lister
  /\ LET d == fileShouldBeDeleted(key, whitelist)
     IN  IF d = "throw"
         THEN /\ sync' = [sync EXCEPT !.pc = "thrown", !.err = "whitelist"]
              /\ out' = out
         ELSE IF d = "false"
         THEN /\ sync' = [sync EXCEPT !.lister = @ \ {key}]
              /\ out' = out
         ELSE /\ sync' = [sync EXCEPT !.lister = @ \ {key},
                                      !.toDelete = Append(@, key)]
              /\ out' = Append(out, DeleteRecord(key))
  /\ UNCHANGED <<remote, pubVars, prefix, whitelist, delCalls, prevSync, nsync>>

\* Lines 426-440: lister.on('data').
ListerData(key) ==
  /\ sync.pc = "listing"
  /\ key \in sync.lister
  /\ IF key \in sync.newFiles
     THEN /\ sync' = [sync EXCEPT !.lister = @ \ {key}]
          /\ out' = out
     ELSE LET d == fileShouldBeDeleted(key, whitelist)
          IN  IF d = "throw"
              THEN /\ sync' = [sync EXCEPT !.pc = "thrown", !.err = "whitelist"]
                   /\ out' = out
              ELSE IF d = "false"
              THEN /\ sync' = [sync EXCEPT !.lister = @ \ {key}]
                   /\ out' = out
              ELSE /\ sync' = [sync EXCEPT !.lister = @ \ {key},
                                           !.toDelete = Append(@, key)]
                   /\ out' = Append(out, DeleteRecord(key))
  /\ UNCHANGED <<remote, pubVars, prefix, whitelist, delCalls, prevSync, nsync>>

\* Lines 442-445: lister.on('end').
ListerEnd ==
  /\ sync.pc = "listing"
  /\ sync.lister = {}
  /\ IF sync.toDelete = <<>>
     THEN /\ sync' = [sync EXCEPT !.pc = "done"]
          /\ delCalls' = delCalls
     ELSE /\ sync' = [sync EXCEPT !.pc = "deleting"]
          /\ delCalls' = Append(delCalls, buildDeleteMultiple(sync.toDelete))
  /\ UNCHANGED <<remote, pubVars, prefix, whitelist, out, prevSync, nsync>>

\* The callback of deleteObjects: cb of _flush; the store has dropped the
\* keys when the call succeeded.
DeleteResponse(ok) ==
  /\ sync.pc = "deleting"
  /\ IF ok
     THEN /\ remote' = [k \in Keys |->
                          IF k \in CallKeys(delCalls[Len(delCalls)]) THEN NoEtag ELSE remote[k]]
          /\ sync' = [sync EXCEPT !.pc = "done"]
     ELSE /\ remote' = remote
          /\ sync' = [sync EXCEPT !.pc = "done", !.err = "delete"]
  /\ UNCHANGED <<pubVars, prefix, whitelist, out, delCalls, prevSync, nsync>>

\* Lines 404-408: sync(prefix, whitelistedFiles) again, for the next run.
SyncNewRun ==
  /\ sync.pc = "done"
  /\ nsync < MaxSyncRuns
  /\ prevSync' = [ran |-> TRUE, newFiles |-> sync.newFiles, ok |-> sync.err = Undefined,
                  deleted |-> IF sync.err = Undefined
                              THEN UNION {CallKeys(delCalls[i]) : i \in 1..Len(delCalls)}
                              ELSE {}]
  /\ sync' = SyncOpen
  /\ out' = <<>>
  /\ delCalls' = <<>>
  /\ nsync' = nsync + 1
  /\ UNCHANGED <<remote, pubVars, prefix, whitelist>>

NextSync ==
  \/ \E f \in SyncFiles : SyncWrite(f)
  \/ SyncFlush
  \/ \E k \in Keys : ListerData(k)
  \/ ListerEnd
  \/ \E ok \in BOOLEAN : DeleteResponse(ok)
  \/ SyncNewRun

SpecSync == InitSync /\ [][NextSync]_vars

\* ------------------------------------------------------------------ claims

\* The file of publish() reached the header derivation (lines 337-355).
ReachedHeaders ==
  /\ pub.pc # "idle"
  /\ pub.in.kind = "buffer"
  /\ pub.file.s3.state \notin {"delete", "cache"}

\* headObject has answered for the file of publish(), with an object or with
\* an error that means there is none.
HeadAnswered ==
  /\ pub.pc \in {"put", "done"}
  /\ pub.headCalls = 1
  /\ pub.res.err \in {Undefined, "403", "404"}

\* C1: once headObject has answered, the state is 'create' exactly when the
\* answer holds no object, 'skip' exactly when it holds one and createOnly
\* is on or force is off and its ETag is the local one, 'update' otherwise;
\* putObject is issued exactly in the states 'create' and 'update'.
C1_StateAfterHead ==
  HeadAnswered =>
    LET exists == pub.res.ETag # NoEtag
        same   == pub.res.ETag = LocalEtag(pub.in.contents)
        skips  == exists /\ (options.createOnly \/ (~options.force /\ same))
        state  == pub.file.s3.state
    IN  /\ state \in {"create", "skip", "update"}
        /\ (state = "create") <=> ~exists
        /\ (state = "skip") <=> skips
        /\ (state = "update") <=> (exists /\ ~skips)
        /\ (pub.putCalls = 1) <=> (state \in {"create", "update"})
        /\ pub.putCalls \in {0, 1}

\* A forced upload of content the store already holds.
C1_Witness ==
  /\ HeadAnswered
  /\ options.force /\ ~options.createOnly
  /\ pub.res.ETag = LocalEtag(pub.in.contents)
  /\ pub.file.s3.state = "update"
  /\ pub.putCalls = 1

\* The file of publish() is a buffer, not marked for deletion, with force
\* off, and the last file of its key that passed cache() had the same
\* content and was in state create, update or skip.
SecondPass ==
  /\ pub.pc # "idle"
  /\ pub.in.kind = "buffer"
  /\ initFile(pub.in).s3.state # "delete"
  /\ ~options.force
  /\ pub.prev.state \in {"create", "update", "skip"}
  /\ pub.prev.contents = pub.in.contents

\* C2: the second pass of a file with the same key and content, force off,
\* after a first pass that ended in create, update or skip and went through
\* cache(), is a cache hit, with no headObject and no putObject call.
C2_SecondPassIsCacheHit ==
  SecondPass =>
    /\ pub.pc = "done"
    /\ pub.file.s3.state = "cache"
    /\ pub.headCalls = 0
    /\ pub.putCalls = 0
    /\ pub.pushed = 1

\* A cache hit after a skip, in a later run.
C2_Witness ==
  /\ SecondPass
  /\ pub.prev.state = "skip"
  /\ pub.file.s3.state = "cache"
  /\ nfiles = 2
  /\ counter = 0

\* No file is in publish() or between publish() and cache().
Quiet == pub.pc \in {"idle", "done"} /\ q = <<>>

\* C3: once every file has passed publish() and cache(), every key of the
\* cache maps to the ETag of the object the store holds at that key.
C3_CacheMatchesStore == Quiet => Consistent(cache, remote)

\* C4: with createOnly on, no putObject is issued for a key at which
\* headObject reported an object, whatever force is; the file ends in 'skip'.
C4_CreateOnlyNeverUpdates ==
  (options.createOnly /\ pub.headCalls = 1 /\ pub.res.ETag # NoEtag) =>
    /\ pub.putCalls = 0
    /\ pub.pc = "done"
    /\ pub.file.s3.state = "skip"
    /\ pub.pushed = 1

\* createOnly and force, and the store holds other content.
C4_Witness ==
  /\ options.createOnly /\ options.force
  /\ pub.headCalls = 1
  /\ pub.res.ETag # NoEtag
  /\ pub.res.ETag # LocalEtag(pub.in.contents)
  /\ pub.file.s3.state = "skip"

\* The key equals a string of the whitelist or matches one of its patterns.
Whitelisted(key) ==
  \E i \in 1..Len(whitelist) :
    \/ whitelist[i].kind = "string" /\ whitelist[i].val = key
    \/ whitelist[i].kind = "regexp" /\ RegExpTest(whitelist[i].val, key)

\* The keys of every deleteObjects call of this run.
DeletedKeys == UNION {CallKeys(delCalls[i]) : i \in 1..Len(delCalls)}

\* C5: the keys passed to deleteObjects are the keys of the listing, minus
\* the keys of the files of this run, minus the keys the whitelist protects.
C5_DeleteSet ==
  sync.pc \in {"deleting", "done"} =>
    DeletedKeys = {k \in sync.listed : k \notin sync.newFiles /\ ~Whitelisted(k)}

\* A run that listed a published key, a protected key not published, and
\* a key it deleted.
C5_Witness ==
  /\ sync.pc = "done"
  /\ DeletedKeys # {}
  /\ \E k \in sync.listed : k \in sync.newFiles
  /\ \E k \in sync.listed : k \notin sync.newFiles /\ Whitelisted(k)

\* C6: every file written into publish() is emitted exactly once, whatever
\* the outcome; a file with no contents is emitted unchanged.
C6_EmittedExactlyOnce ==
  pub.pc = "done" =>
    /\ pub.pushed = 1
    /\ pub.in.kind = "null" => pub.file = pub.in

\* C6, amended: a file is emitted at most once; exactly once when it holds a
\* buffer and ends marked for deletion, as a cache hit, simulated, skipped,
\* created or updated, with its ETag and date once skipped or uploaded; not
\* at all when it has no contents or a stream, when headObject failed with
\* another error than 403 and 404, or when putObject failed.
C6_EmittedByOutcome ==
  pub.pc = "done" =>
    LET dropped == \/ pub.in.kind \in {"null", "stream"}
                   \/ pub.res.err \notin {Undefined, "403", "404"}
                   \/ pub.err = "put"
    IN  /\ pub.pushed = (IF dropped THEN 0 ELSE 1)
        /\ pub.in.kind = "stream" <=> pub.err = "stream"
        /\ ~dropped =>
             /\ pub.file.s3.state \in {"delete", "cache", Undefined, "skip", "create", "update"}
             /\ pub.file.s3.state = Undefined => (options.simulate /\ pub.headCalls = 0)
             /\ pub.file.s3.state \in {"skip", "create", "update"} =>
                  /\ pub.file.s3.etag = LocalEtag(pub.in.contents)
                  /\ pub.file.s3.date # Undefined

\* A file whose upload failed is not emitted.
C6_Witness ==
  /\ pub.pc = "done"
  /\ pub.err = "put"
  /\ pub.pushed = 0
  /\ pub.file.s3.state = "update"

\* C7: every header the file carried before publish() keeps its value.
C7_UpstreamHeadersKept ==
  ReachedHeaders =>
    \A h \in HeaderNames :
      pub.in.s3.headers[h] # Undefined => pub.file.s3.headers[h] = pub.in.s3.headers[h]

\* C7, amended: a header the file carried before publish() keeps its value
\* unless publish() was given that header (x-amz-acl: public-read by
\* default), and then it takes the value publish() was given.
C7_HeadersKeptUnlessGiven ==
  ReachedHeaders =>
    \A h \in HeaderNames :
      pub.in.s3.headers[h] # Undefined =>
        pub.file.s3.headers[h] =
          (IF headers[h] # Undefined THEN headers[h] ELSE pub.in.s3.headers[h])

\* Cache-Control of the file replaced by the one given to publish(), the
\* content type and the encoding of the file kept.
C7_Witness ==
  /\ ReachedHeaders
  /\ pub.in.s3.headers["Cache-Control"] = "no-cache"
  /\ pub.file.s3.headers["Cache-Control"] = "max-age=60"
  /\ pub.file.s3.headers["Content-Type"] = "text/html"
  /\ pub.file.s3.headers["Content-Encoding"] = "br"
  /\ options.compress = "gzip"

\* The keys of toDelete.
ToDeleteKeys == {sync.toDelete[i] : i \in 1..Len(sync.toDelete)}

C9_HeadErrors ==
  (pub.headCalls = 1 /\ pub.res.err # Undefined) =>
    IF pub.res.err \in {"403", "404"}
    THEN /\ pub.file.s3.state = "create"
         /\ pub.putCalls = 1
         /\ pub.err # "head"
         /\ pub.pc = "done" /\ pub.err = Undefined => pub.pushed = 1
    ELSE /\ pub.pc = "done"
         /\ pub.err = "head"
         /\ pub.putCalls = 0
         /\ pub.pushed = 0

\* A 403 with createOnly on, uploaded and emitted as 'create'.
C9_Witness ==
  /\ pub.res.err = "403"
  /\ options.createOnly
  /\ pub.pc = "done"
  /\ pub.file.s3.state = "create"
  /\ pub.pushed = 1

\* The flush of this run has started, after a run over the same files whose
\* flush succeeded.
SecondSync ==
  /\ prevSync.ran /\ prevSync.ok
  /\ sync.pc # "open"
  /\ sync.newFiles = prevSync.newFiles

\* C10: a second reconciliation over the same files, prefix and whitelist,
\* after a first one whose deletion succeeded, has an empty delete set: no
\* delete record is emitted and deleteObjects is not called.
C10_SecondSyncDeletesNothing ==
  SecondSync =>
    /\ sync.toDelete = <<>>
    /\ delCalls = <<>>
    /\ \A i \in 1..Len(out) : out[i].s3.state # "delete"
    /\ sync.pc # "deleting"

\* The first run deleted keys, the second listed keys and ended.
C10_Witness ==
  /\ SecondSync
  /\ prevSync.deleted # {}
  /\ sync.pc = "done"
  /\ sync.listed # {}


\* C11: when the cache() stream has finished, the cache file holds exactly
\* the in-memory mapping as it stands after the last file, whatever the
\* number of files (none, ten), and a Publisher created then on the same
\* cache file loads a mapping equal to it.
C11_FinishPersistsCache ==
  phase = "finished" =>
    /\ disk.exists
    /\ Parse(disk.text) = cache
    /\ LoadCache(disk) = cache

\* Ten files were processed, the tenth one without a periodic save, and the
\* stream has finished with an entry in the mapping.
C11_Witness ==
  /\ phase = "finished"
  /\ counter = 10
  /\ cache[KeyA] # NoEtag

\* C13: cache() writes the cache file when, and only when, the count of
\* processed files reaches a multiple of 10.
C13_SavesEveryTenth ==
  [][counter' = counter + 1 =>
       IF counter' % 10 = 0 THEN disk' = saveCache(cache') ELSE disk' = disk]_vars


\* The keys of the files sync() forwarded downstream in this run.
ForwardedKeys == {out[i].s3.path : i \in {j \in 1..Len(out) : out[j].s3.state # "delete"}}

\* C12: the listing starts only once every file of the run has been taken
\* by the transform and forwarded; from then on no key is added to the
\* published keys and no file is forwarded, and no published key is in the
\* delete set or in a deleteObjects call.
C12_ListingAfterFiles ==
  [][/\ sync'.pc = "open" => sync'.listed = {} /\ sync'.toDelete = <<>> /\ delCalls' = <<>>
     /\ sync'.newFiles = ForwardedKeys'
     /\ (sync.pc # "open" /\ sync'.pc # "open") =>
           sync'.newFiles = sync.newFiles /\ ForwardedKeys' = ForwardedKeys
     /\ ToDeleteKeys' \cap sync'.newFiles = {}
     /\ DeletedKeys' \cap sync'.newFiles = {}]_vars

\* A run that published a key the listing delivered, and deleted another.
C12_Witness ==
  /\ sync.pc = "done"
  /\ sync.err = Undefined
  /\ sync.newFiles \cap sync.listed # {}
  /\ DeletedKeys # {}


\* C14: a file whose headObject fails with an error other than 403/404, or
\* whose putObject fails, changes no cache entry, in memory or on disk: no
\* step of publish() touches the mapping or the cache file, and the failed
\* file is not pushed to cache(), so the entries of earlier files stay.
C14_FailedFileLeavesCache ==
  [][(pub' # pub /\ phase' = phase) =>
       /\ cache' = cache
       /\ disk' = disk
       /\ (pub'.res.err = "500" \/ pub'.err = "put") => (q' = q /\ pub'.pushed = 0)]_vars

\* The second file of a run failed in putObject while the cache holds another
\* fingerprint for its key and the entry of the file created before it.
C14_Witness ==
  /\ pub.pc = "done"
  /\ pub.err = "put"
  /\ q = <<>>
  /\ cache[KeyA] # NoEtag
  /\ cache[KeyA] # pub.etag
  /\ pub.file.s3.path = KeyA
  /\ prevPass[KeyB].state = "create"
  /\ cache[KeyB] = LocalEtag(prevPass[KeyB].contents)
  /\ disk = saveCache(cache)


\* C15: for the file cache() takes from its input: in state 'delete' its key
\* leaves the mapping; in state 'create' or 'update' its key maps to the
\* file's fingerprint; in state 'cache' the mapping, the cache file and the
\* counter stay as they are; and no other key's entry changes.
C15_CacheByState ==
  [][(q # <<>> /\ q' = Tail(q) /\ Head(q).s3.set /\ Head(q).s3.path \in Keys) =>
       LET file == Head(q)
           key  == file.s3.path
       IN  /\ file.s3.state = "delete" => cache'[key] = NoEtag
           /\ file.s3.state \in {"create", "update"} =>
                cache'[key] = LocalEtag(file.contents)
           /\ file.s3.state = "cache" =>
                (cache' = cache /\ disk' = disk /\ counter' = counter)
           /\ \A k \in Keys \ {key} : cache'[k] = cache[k]]_vars

\* A file marked for deletion has passed cache() as second file of a run:
\* its key is gone from the mapping, the other key's entry is still there.
C15_Witness ==
  /\ q = <<>>
  /\ nfiles = 2
  /\ prevPass[KeyA].state = "delete"
  /\ cache[KeyA] = NoEtag
  /\ remote[KeyA] # NoEtag
  /\ prevPass[KeyB].state \in {"create", "update"}
  /\ cache[KeyB] = LocalEtag(prevPass[KeyB].contents)


\* C16: a buffer file that enters publish() in state 'delete' is pushed
\* downstream as it came (state 'delete', same headers), with no headObject
\* and no putObject call and without regard to the cache, whatever force,
\* createOnly and simulate are.
C16_DeletePassesThrough ==
  (pub.pc # "idle" /\ pub.in.kind = "buffer" /\ pub.in.s3.state = "delete") =>
    /\ pub.pc = "done"
    /\ pub.err = Undefined
    /\ pub.pushed = 1
    /\ pub.file = pub.in
    /\ pub.file.s3.state = "delete"
    /\ pub.file.s3.headers = pub.in.s3.headers
    /\ pub.headCalls = 0
    /\ pub.putCalls = 0

\* A file marked for deletion whose fingerprint is the one the cache holds
\* for its key, in a run without force: a lookup would have been a hit.
C16_Witness ==
  /\ pub.pc = "done"
  /\ pub.in.kind = "buffer"
  /\ pub.in.s3.state = "delete"
  /\ ~options.force
  /\ cache[pub.in.s3.path] = LocalEtag(pub.in.contents)


\* C17, as stated: with simulate on, publish() calls neither headObject nor
\* putObject, leaves no state create, update or skip and no fingerprint on
\* the file, and cache() leaves the mapping unchanged for every file.
C17_SimulateLeavesCache ==
  [][options.simulate =>
       /\ pub'.headCalls = 0
       /\ pub'.putCalls = 0
       /\ pub'.file.s3.state \notin {"create", "update", "skip"}
       /\ pub'.file.s3.etag = NoEtag
       /\ (q # <<>> /\ q' = Tail(q)) => cache' = cache]_vars

\* C17, amended: as above, but cache() leaves the mapping unchanged only for
\* a file that did not come marked for deletion; the key of a file that was
\* already in state 'delete' leaves the mapping, simulate or not.
C17_SimulateLeavesCacheUnlessDelete ==
  [][options.simulate =>
       /\ pub'.headCalls = 0
       /\ pub'.putCalls = 0
       /\ pub'.file.s3.state \notin {"create", "update", "skip"}
       /\ pub'.file.s3.etag = NoEtag
       /\ (q # <<>> /\ q' = Tail(q)) =>
            cache' = IF Head(q).s3.state = "delete"
                     THEN [cache EXCEPT ![Head(q).s3.path] = NoEtag]
                     ELSE cache]_vars

\* A simulated file (no state) has passed cache() while the cache holds
\* another fingerprint for its key.
C17_Witness ==
  /\ options.simulate
  /\ nfiles = 1
  /\ pub.pc = "done"
  /\ pub.pushed = 1
  /\ q = <<>>
  /\ pub.file.s3.state = Undefined
  /\ prevPass[pub.file.s3.path].state = Undefined
  /\ prevPass[pub.file.s3.path].contents = pub.file.contents
  /\ cache[pub.file.s3.path] # NoEtag
  /\ cache[pub.file.s3.path] # pub.etag


\* The whitelist holds an entry that is neither a string nor a pattern.
Malformed == \E i \in 1..Len(whitelist) : whitelist[i].kind \notin {"string", "regexp"}

\* C18: with such an entry in the whitelist the reconciliation never ends
\* normally, whatever is listed and published: it fails with the
\* configuration error, and no deleteObjects call is issued.
C18_MalformedWhitelistFails ==
  Malformed =>
    /\ sync.pc \notin {"deleting", "done"}
    /\ sync.pc \notin {"open", "listing"} => sync.err = "whitelist"
    /\ delCalls = <<>>


IsDeleteRecord(file) == file.s3.state = "delete"

\* The delete records sync() pushed in this run, in order.
DeleteRecords == SelectSeq(out, IsDeleteRecord)

\* C19: in what sync() pushes, every file of the run comes before every
\* delete record; there is exactly one delete record (state 'delete', no
\* contents) per key of the delete set, in its order; and once deleteObjects
\* has been called - also when it failed - the records of exactly the keys
\* of that call are already pushed.
C19_DeleteRecordsBeforeCall ==
  /\ \A i, j \in 1..Len(out) : (i < j /\ IsDeleteRecord(out[i])) => IsDeleteRecord(out[j])
  /\ Len(DeleteRecords) = Len(sync.toDelete)
  /\ Cardinality(ToDeleteKeys) = Len(sync.toDelete)
  /\ \A i \in 1..Len(DeleteRecords) :
       /\ DeleteRecords[i].s3.path = sync.toDelete[i]
       /\ DeleteRecords[i].kind = "null"
       /\ DeleteRecords[i].contents = ""
  /\ delCalls # <<>> =>
       /\ Len(delCalls) = 1
       /\ DeletedKeys = {DeleteRecords[i].s3.path : i \in 1..Len(DeleteRecords)}
  /\ sync.err = "delete" => (delCalls # <<>> /\ DeleteRecords # <<>>)

\* A file was forwarded, two keys were listed for deletion, and the
\* deleteObjects call failed.
C19_Witness ==
  /\ sync.pc = "done"
  /\ sync.err = "delete"
  /\ Len(sync.toDelete) = 2
  /\ Len(out) = 3
  /\ ~IsDeleteRecord(out[1])

====
